---- MODULE Spec2Model ----
(***************************************************************************)
(* Device inventory API: the two drafts of the application found in the    *)
(* repository (app.py, a single-module Flask app, and routes/*.py with     *)
(* db.py, a blueprint draft), run against one document store.              *)
(*                                                                         *)
(* Text is a sequence of one-character strings, so that the syntax checks  *)
(* (the IPv4 regular expression, ObjectId parsing) are computed and not    *)
(* assumed. A JSON value is a record [t, v]: t is "str", "null" or "num",  *)
(* v the text of a string or the digits of a number.                       *)
(***************************************************************************)
EXTENDS Integers, Sequences, FiniteSets, TLC

(* ------------------------------ bounds --------------------------------- *)
NumProcs == 2   \* request-handling threads
MaxReqs == 3    \* requests started in one behaviour

(* ------------------------------ text ----------------------------------- *)
Digits == {"0", "1", "2", "3", "4", "5", "6", "7", "8", "9"}
HexDigits == Digits \cup {"a", "b", "c", "d", "e", "f"}

Str(s) == [t |-> "str", v |-> s]
None == [t |-> "null", v |-> <<>>]
Num(s) == [t |-> "num", v |-> s]

\* Python truthiness of a JSON value: None, "" and 0 are falsy.
Truthy(x) ==
    CASE x.t = "null" -> FALSE
      [] x.t = "str" -> x.v # <<>>
      [] x.t = "num" -> x.v # <<"0">>

ROUTER == <<"r", "o", "u", "t", "e", "r">>
SWITCH == <<"s", "w", "i", "t", "c", "h">>
SERVER == <<"s", "e", "r", "v", "e", "r">>
ONLINE == <<"o", "n", "l", "i", "n", "e">>
OFFLINE == <<"o", "f", "f", "l", "i", "n", "e">>

DeviceType == {ROUTER, SWITCH, SERVER}
DeviceStatus == {ONLINE, OFFLINE}

\* Pieces of s between occurrences of sep (str.split).
RECURSIVE Split(_, _)
Split(s, sep) ==
    IF \A i \in 1..Len(s) : s[i] # sep
    THEN <<s>>
    ELSE LET k == CHOOSE i \in 1..Len(s) :
                      s[i] = sep /\ \A j \in 1..(i - 1) : s[j] # sep
         IN <<SubSeq(s, 1, k - 1)>> \o Split(SubSeq(s, k + 1, Len(s)), sep)

\* One octet of the regular expression: (25[0-5]|2[0-4]\d|1?\d?\d)
OctetRe(o) ==
    /\ Len(o) \in 1..3
    /\ \A i \in 1..Len(o) : o[i] \in Digits
    /\ Len(o) = 3 =>
          \/ o[1] = "1"
          \/ o[1] = "2" /\ o[2] \in {"0", "1", "2", "3", "4"}
          \/ o[1] = "2" /\ o[2] = "5" /\ o[3] \in {"0", "1", "2", "3", "4", "5"}

\* ^octet(\.octet){3} up to the end of the text
DottedQuadRe(s) ==
    LET parts == Split(s, ".")
    IN Len(parts) = 4 /\ \A i \in 1..4 : OctetRe(parts[i])

\* re.match(r"^...$", s): "$" also matches just before a final newline.
is_ipv4_str(s) ==
    \/ DottedQuadRe(s)
    \/ Len(s) > 0 /\ s[Len(s)] = "\n" /\ DottedQuadRe(SubSeq(s, 1, Len(s) - 1))

\* is_ipv4(val): re.match(..., val or ""), a TypeError when val is a truthy
\* non-string.
is_ipv4(x) ==
    IF ~Truthy(x) THEN "false"
    ELSE IF x.t # "str" THEN "TypeError"
    ELSE IF is_ipv4_str(x.v) THEN "true" ELSE "false"

(* ----------------------------- payloads -------------------------------- *)
Fields == {"name", "ip_address", "type", "location", "status"}

\* dict.get(k): None when the key is absent.
Get(payload, k) == IF k \in DOMAIN payload THEN payload[k] ELSE None

\* The keys validate_device_payload requires, in the order it tests them.
Required(require_status) ==
    IF require_status
    THEN <<"name", "ip_address", "type", "location", "status">>
    ELSE <<"name", "ip_address", "type", "location">>

\* k not in payload or payload.get(k) in (None, "")
Absent(payload, k) ==
    \/ k \notin DOMAIN payload
    \/ payload[k] = None
    \/ payload[k] = Str(<<>>)

\* validate_device_payload: [ok, msg], or the TypeError is_ipv4 raises.
validate_device_payload(payload, require_status) ==
    LET req == Required(require_status)
        missing == {i \in 1..Len(req) : Absent(payload, req[i])}
        first == CHOOSE i \in missing : \A j \in missing : i <= j
        ipv4 == is_ipv4(Get(payload, "ip_address"))
    IN IF missing # {}
       THEN [ok |-> FALSE, msg |-> "required", field |-> req[first]]
       ELSE IF ipv4 = "TypeError"
       THEN [ok |-> FALSE, msg |-> "TypeError", field |-> "ip_address"]
       ELSE IF ipv4 = "false"
       THEN [ok |-> FALSE, msg |-> "must be valid IPv4", field |-> "ip_address"]
       ELSE IF ~(payload["type"].t = "str" /\ payload["type"].v \in DeviceType)
       THEN [ok |-> FALSE, msg |-> "must be one of", field |-> "type"]
       ELSE IF require_status
               /\ ~(payload["status"].t = "str" /\ payload["status"].v \in DeviceStatus)
       THEN [ok |-> FALSE, msg |-> "must be one of", field |-> "status"]
       ELSE [ok |-> TRUE, msg |-> "", field |-> ""]

\* ipaddress.IPv4Address(text): four decimal octets of at most 255, no
\* leading zero in an octet of more than one digit, nothing after them.
StrictOctet(o) ==
    /\ OctetRe(o)
    /\ Len(o) > 1 => o[1] # "0"

StrictIPv4(s) ==
    LET parts == Split(s, ".")
    IN Len(parts) = 4 /\ \A i \in 1..4 : StrictOctet(parts[i])

\* ipaddress.IPv6Address(text), for the colon-hexadecimal forms (the forms
\* with an embedded dotted quad or a zone are left out).
IPv6Text(s) ==
    LET groups == Split(s, ":")
        full == {i \in 1..Len(groups) : groups[i] # <<>>}
        dbl == {i \in 1..(Len(s) - 1) : s[i] = ":" /\ s[i + 1] = ":"}
    IN /\ Len(s) >= 2
       /\ \A i \in 1..Len(s) : s[i] \in HexDigits \cup {":"}
       /\ \A i \in full : Len(groups[i]) <= 4
       /\ s[1] = ":" => s[2] = ":"
       /\ s[Len(s)] = ":" => s[Len(s) - 1] = ":"
       /\ \/ dbl = {} /\ Cardinality(full) = 8
          \/ Cardinality(dbl) = 1 /\ Cardinality(full) <= 7

\* pydantic IPvAnyAddress on a JSON value: a string that is an IPv4 or an
\* IPv6 address; an integer is taken as the address 0.0.0.n (n < 256 here).
IPvAnyAddress(x) ==
    CASE x.t = "str" -> StrictIPv4(x.v) \/ IPv6Text(x.v)
      [] x.t = "num" -> Len(x.v) = 1
      [] OTHER -> FALSE

\* str(payload.ip_address)
IPvAnyText(x) ==
    IF x.t = "num" THEN <<"0", ".", "0", ".", "0", ".">> \o x.v ELSE x.v

IsStr(x) == x.t = "str"
IsLiteral(x, S) == x.t = "str" /\ x.v \in S

\* DeviceCreate(**data): the fields pydantic rejects (none: the payload is
\* accepted). status is Optional with default "offline".
DeviceCreateErrors(data) ==
    {k \in {"name", "location"} : ~IsStr(Get(data, k))}
    \cup {k \in {"ip_address"} : ~IPvAnyAddress(Get(data, k))}
    \cup {k \in {"type"} : ~IsLiteral(Get(data, k), DeviceType)}
    \cup {k \in {"status"} :
            /\ k \in DOMAIN data
            /\ data[k] # None
            /\ ~IsLiteral(data[k], DeviceStatus)}

\* DeviceUpdate(**data): status is required.
DeviceUpdateErrors(data) ==
    {k \in {"name", "location"} : ~IsStr(Get(data, k))}
    \cup {k \in {"ip_address"} : ~IPvAnyAddress(Get(data, k))}
    \cup {k \in {"type"} : ~IsLiteral(Get(data, k), DeviceType)}
    \cup {k \in {"status"} : ~IsLiteral(Get(data, k), DeviceStatus)}

\* The status attribute of a parsed DeviceCreate.
DeviceCreateStatus(data) ==
    IF "status" \in DOMAIN data THEN data["status"] ELSE Str(OFFLINE)

(* ------------------------------- store --------------------------------- *)
VARIABLES
    impl,          \* which draft is deployed: "app" (app.py) or "routes"
    dbUp,          \* the store answers now
    db_available,  \* app.py: the flag create_app captured from init_db
    uniqueIdx,     \* the store has the unique index on ip_address
    devices,       \* the devices collection: _id -> document
    nextId,        \* the next ObjectId the store hands out
    nreq,          \* requests started so far
    pc,            \* per thread: where its handler stands
    req,           \* per thread: the request being handled
    loc,           \* per thread: the handler's locals
    resp,          \* the last response sent
    _client,       \* db.py: the module's client: 0 for None, else the
                   \* MongoClient that thread _client built last
    verified,      \* db.py: the clients whose ping has succeeded
    gpc,           \* per thread: where its call of _get_client stands
    got,           \* per thread: what its last call of _get_client returned
    val            \* a call of validate_device_payload: arguments and result

vars == <<impl, dbUp, db_available, uniqueIdx, devices, nextId,
          nreq, pc, req, loc, resp, _client, verified, gpc, got, val>>

Procs == 1..NumProcs

DigitSeq == <<"0", "1", "2", "3", "4", "5", "6", "7", "8", "9">>

\* str(ObjectId): the hexadecimal text of the id (two digits stand for the 24).
OidStr(n) == <<"0", DigitSeq[n + 1]>>

\* ObjectId(text): the id, or 0 for the InvalidId it raises.
ObjectId(s) ==
    IF Len(s) = 2 /\ s[1] = "0" /\ s[2] \in Digits \ {"0"}
    THEN CHOOSE n \in 1..9 : OidStr(n) = s
    ELSE 0

NoDoc == [found |-> FALSE, _id |-> 0, name |-> None, ip_address |-> None,
          type |-> None, location |-> None, status |-> None]

\* find_one({"_id": id})
FindById(id) ==
    IF id \in DOMAIN devices
    THEN [found |-> TRUE, _id |-> id, name |-> devices[id].name,
          ip_address |-> devices[id].ip_address, type |-> devices[id].type,
          location |-> devices[id].location, status |-> devices[id].status]
    ELSE NoDoc

\* insert_one as it would be if it handed out the ids of deleted documents
\* again.
InsertedIdReused == CHOOSE i \in 1..nextId : i \notin DOMAIN devices /\
                       \A j \in 1..(i - 1) : j \in DOMAIN devices

\* insert_one gives the document a fresh ObjectId: one no document has or
\* has had.
InsertedId == nextId

\* The unique index refuses a write that gives document id the address ip
\* while another document holds it.
DuplicateKey(id, ip) ==
    uniqueIdx /\ \E o \in DOMAIN devices : o # id /\ devices[o].ip_address = ip

\* find_device_by_any_id(db, id): the document the identifier resolves to; an
\* identifier that is no ObjectId resolves to nothing.
find_device_by_any_id(id) == FindById(ObjectId(id))

EmptyOut == [empty |-> TRUE, id |-> <<>>, name |-> None, ip_address |-> None,
             type |-> None, location |-> None, status |-> None]

\* serialize_device(doc): {} for no document; status falls back to "offline".
serialize_device(doc) ==
    IF ~doc.found THEN EmptyOut
    ELSE [empty |-> FALSE, id |-> OidStr(doc._id), name |-> doc.name,
          ip_address |-> doc.ip_address, type |-> doc.type,
          location |-> doc.location,
          status |-> IF Truthy(doc.status) THEN doc.status ELSE Str(OFFLINE)]

\* _to_out(doc).model_dump(): the stored fields, status defaulting to
\* "offline" when the key is absent.
to_out(doc) ==
    [empty |-> FALSE, id |-> OidStr(doc._id), name |-> doc.name,
     ip_address |-> doc.ip_address, type |-> doc.type,
     location |-> doc.location, status |-> doc.status]

(* ------------------------- requests and replies ------------------------ *)
NoPayload == [none |-> None]
NoReq == [op |-> "none", id |-> <<>>, payload |-> NoPayload, n |-> 0,
          gone |-> FALSE]

IdleLoc == [_id |-> 0, status |-> None, was |-> None, down |-> FALSE, up |-> FALSE, solo |-> FALSE,
            ops |-> 0, pinged |-> FALSE, probes |-> <<>>]

NoResp == [n |-> 0, op |-> "none", id |-> <<>>, payload |-> NoPayload,
           gone |-> FALSE, was |-> None,
           code |-> 0, data |-> EmptyOut, items |-> <<>>, status |-> None,
           field |-> "", down |-> FALSE, up |-> FALSE, solo |-> FALSE, ops |-> 0,
           pinged |-> FALSE, probes |-> <<>>]

\* The locals of a handler that starts now. down (up): the store has been
\* down (up) at every step of the request; solo: no other request was in flight during it;
\* ops: reads and writes of the collection attempted; pinged: a connectivity
\* check was sent; probes: the hosts pinged, with the verdicts; was: the
\* status the device had when the request's update wrote to it.
Fresh(p) ==
    [_id |-> 0, status |-> None, was |-> None, down |-> ~dbUp, up |-> dbUp,
     solo |-> \A q \in Procs \ {p} : pc[q] = "idle",
     ops |-> 0, pinged |-> FALSE, probes |-> <<>>]

\* The locals of a handler that takes a further step now.
Cur(p) == [loc[p] EXCEPT !.down = @ /\ ~dbUp, !.up = @ /\ dbUp]

\* An id the store has handed out and that names no document any more: the
\* documents leave the collection by delete_one / find_one_and_delete only,
\* in the step that answers 204.
Deleted(id) == id \in 1..(nextId - 1) /\ id \notin DOMAIN devices

\* gone: the identifier named a deleted document when the request arrived.
NewReq(op, id, payload) ==
    [op |-> op, id |-> id, payload |-> payload, n |-> nreq + 1,
     gone |-> Deleted(ObjectId(id))]

Reply(r, l, code, data, items, status, field) ==
    [n |-> r.n, op |-> r.op, id |-> r.id, payload |-> r.payload,
     gone |-> r.gone, was |-> l.was, code |-> code, data |-> data, items |-> items, status |-> status,
     field |-> field, down |-> l.down, up |-> l.up, solo |-> l.solo,
     ops |-> l.ops,
     pinged |-> l.pinged, probes |-> l.probes]

Frame(p, first, r, l, label, reply) ==
    /\ pc' = [pc EXCEPT ![p] = label]
    /\ req' = [req EXCEPT ![p] = IF label = "idle" THEN NoReq ELSE r]
    /\ loc' = [q \in Procs |->
                 IF q = p THEN (IF label = "idle" THEN IdleLoc ELSE l)
                 ELSE IF first /\ pc[q] # "idle"
                      THEN [loc[q] EXCEPT !.solo = FALSE]
                      ELSE loc[q]]
    /\ resp' = reply
    /\ nreq' = IF first THEN nreq + 1 ELSE nreq

\* The handler returns (or an error handler answers for it).
Done(p, first, r, l, code, data, items, status, field) ==
    Frame(p, first, r, l, "idle", Reply(r, l, code, data, items, status, field))

Error(p, first, r, l, code) ==
    Done(p, first, r, l, code, EmptyOut, <<>>, None, "")

\* The handler goes on at label.
Goto(p, first, r, l, label) == Frame(p, first, r, l, label, resp)

\* A request is taken by the first idle thread.
Idle(p) ==
    /\ pc[p] = "idle"
    /\ \A q \in 1..(p - 1) : pc[q] # "idle"
    /\ nreq < MaxReqs

Op(l) == [l EXCEPT !.ops = @ + 1]

StoreSame == UNCHANGED <<devices, nextId, uniqueIdx>>
ConfSame == UNCHANGED <<impl, db_available, gpc, got, val>>

(* ------------------------------- inputs -------------------------------- *)
IP_A == <<"1", "0", ".", "0", ".", "0", ".", "1">>
IP_B == <<"1", "0", ".", "0", ".", "0", ".", "2">>
IP_V6 == <<":", ":", "1">>
R1 == <<"r", "1">>
R2 == <<"r", "2">>
RACK1 == <<"r", "a", "c", "k", "1">>
RACK2 == <<"r", "a", "c", "k", "2">>
BAD_ID == <<"z", "z">>

PA == [name |-> Str(R1), ip_address |-> Str(IP_A), type |-> Str(ROUTER),
       location |-> Str(RACK1)]
PAon == [name |-> Str(R1), ip_address |-> Str(IP_A), type |-> Str(ROUTER),
         location |-> Str(RACK1), status |-> Str(ONLINE)]
PB == [name |-> Str(R2), ip_address |-> Str(IP_B), type |-> Str(SWITCH),
       location |-> Str(RACK2), status |-> Str(OFFLINE)]
PBogus == [name |-> Str(R2), ip_address |-> Str(IP_B), type |-> Str(SERVER),
           location |-> Str(RACK2), status |-> Str(<<"u", "p">>)]
PNoName == [ip_address |-> Str(IP_B), type |-> Str(ROUTER),
            location |-> Str(RACK1), status |-> Str(ONLINE)]
PV6 == [name |-> Str(R2), ip_address |-> Str(IP_V6), type |-> Str(SERVER),
        location |-> Str(RACK2), status |-> Str(ONLINE)]
PNum == [name |-> Str(R2), ip_address |-> Num(<<"5">>), type |-> Str(SERVER),
         location |-> Str(RACK2), status |-> Str(ONLINE)]

CreatePayloads == {PA, PAon, PB, PBogus, PNoName, PV6, PNum}
UpdatePayloads == {PA, PAon, PB, PV6}
Ids == {OidStr(1), OidStr(2), BAD_ID}
StatusIds == Ids \cup {IP_A}

(* ------------------------------- app.py -------------------------------- *)
\* create_device as it would be if it stored "offline" whatever the payload
\* says.
AppNewDocStatusDropped(payload) ==
    [name |-> payload["name"], ip_address |-> payload["ip_address"],
     type |-> payload["type"], location |-> payload["location"],
     status |-> Str(OFFLINE)]

\* The document create_device inserts: status "offline" unless the payload
\* has the key.
AppNewDoc(payload) ==
    [name |-> payload["name"], ip_address |-> payload["ip_address"],
     type |-> payload["type"], location |-> payload["location"],
     status |-> IF "status" \in DOMAIN payload THEN payload["status"]
                ELSE Str(OFFLINE)]

\* The $set of update_device.
AppSetDoc(payload) ==
    [name |-> payload["name"], ip_address |-> payload["ip_address"],
     type |-> payload["type"], location |-> payload["location"],
     status |-> payload["status"]]

\* Every document, serialized, in the store's natural (insertion) order.
RECURSIVE AppItems(_)
AppItems(ids) ==
    IF ids = {} THEN <<>>
    ELSE LET m == CHOOSE i \in ids : \A j \in ids : i <= j
         IN <<serialize_device(FindById(m))>> \o AppItems(ids \ {m})

health(p) ==
    /\ impl = "app" /\ Idle(p)
    /\ LET r == NewReq("health", <<>>, NoPayload)
           l == Fresh(p)
       IN Done(p, TRUE, r, l, 200, EmptyOut, <<>>,
               IF db_available THEN Str(<<"t">>) ELSE Str(<<"f">>), "")
    /\ StoreSame /\ ConfSame /\ UNCHANGED <<dbUp, _client, verified>>

app_list_devices(p) ==
    /\ impl = "app" /\ Idle(p)
    /\ LET r == NewReq("list", <<>>, NoPayload)
           l == Fresh(p)
       IN IF ~db_available THEN Error(p, TRUE, r, l, 503)
          ELSE IF ~dbUp THEN Error(p, TRUE, r, Op(l), 500)
          ELSE Done(p, TRUE, r, Op(l), 200, EmptyOut,
                    AppItems(DOMAIN devices), None, "")
    /\ StoreSame /\ ConfSame /\ UNCHANGED <<dbUp, _client, verified>>

AppCreateDevice(p, payloads) ==
    /\ impl = "app" /\ Idle(p)
    /\ \E payload \in payloads :
         LET r == NewReq("create", <<>>, payload)
             l == Fresh(p)
             v == validate_device_payload(payload, FALSE)
             doc == AppNewDoc(payload)
         IN IF ~db_available
            THEN Error(p, TRUE, r, l, 503) /\ StoreSame
            ELSE IF v.msg = "TypeError"
            THEN Error(p, TRUE, r, l, 500) /\ StoreSame
            ELSE IF ~v.ok
            THEN Done(p, TRUE, r, l, 400, EmptyOut, <<>>, None, v.field) /\ StoreSame
            ELSE IF ~dbUp
            THEN Error(p, TRUE, r, Op(l), 500) /\ StoreSame
            ELSE IF DuplicateKey(InsertedId, doc.ip_address)
            THEN Error(p, TRUE, r, Op(l), 409) /\ StoreSame
            ELSE /\ devices' = (InsertedId :> doc) @@ devices
                 /\ nextId' = nextId + 1
                 /\ UNCHANGED uniqueIdx
                 /\ Goto(p, TRUE, r, [Op(l) EXCEPT !._id = InsertedId], "create_find")
    /\ ConfSame /\ UNCHANGED <<dbUp, _client, verified>>

app_create_device(p) == AppCreateDevice(p, CreatePayloads)

\* doc = db.devices.find_one({"_id": res.inserted_id}), inside the try.
app_create_find(p) ==
    /\ pc[p] = "create_find"
    /\ LET r == req[p]
           l == Op(Cur(p))
       IN IF ~dbUp THEN Error(p, FALSE, r, l, 500)
          ELSE Done(p, FALSE, r, l, 201, serialize_device(FindById(l._id)),
                    <<>>, None, "")
    /\ StoreSame /\ ConfSame /\ UNCHANGED <<dbUp, _client, verified>>

AppGetDevice(p, ids) ==
    /\ impl = "app" /\ Idle(p)
    /\ \E id \in ids :
         LET r == NewReq("get", id, NoPayload)
             l == Fresh(p)
             doc == find_device_by_any_id(id)
         IN IF ~db_available THEN Error(p, TRUE, r, l, 503)
            ELSE IF ~dbUp THEN Error(p, TRUE, r, Op(l), 500)
            ELSE IF ~doc.found THEN Error(p, TRUE, r, Op(l), 404)
            ELSE Done(p, TRUE, r, Op(l), 200, serialize_device(doc), <<>>, None, "")
    /\ StoreSame /\ ConfSame /\ UNCHANGED <<dbUp, _client, verified>>

app_get_device(p) == AppGetDevice(p, Ids)

AppUpdateDevice(p, ids, payloads) ==
    /\ impl = "app" /\ Idle(p)
    /\ \E id \in ids, payload \in payloads :
         LET r == NewReq("update", id, payload)
             l == Fresh(p)
             v == validate_device_payload(payload, TRUE)
             doc == find_device_by_any_id(id)
         IN IF ~db_available THEN Error(p, TRUE, r, l, 503)
            ELSE IF v.msg = "TypeError" THEN Error(p, TRUE, r, l, 500)
            ELSE IF ~v.ok
            THEN Done(p, TRUE, r, l, 400, EmptyOut, <<>>, None, v.field)
            ELSE IF ~dbUp THEN Error(p, TRUE, r, Op(l), 500)
            ELSE IF ~doc.found THEN Error(p, TRUE, r, Op(l), 404)
            ELSE Goto(p, TRUE, r, [Op(l) EXCEPT !._id = doc._id], "upd_check")
    /\ StoreSame /\ ConfSame /\ UNCHANGED <<dbUp, _client, verified>>

app_update_device(p) == AppUpdateDevice(p, Ids, UpdatePayloads)

\* other = find_one({"ip_address": ..., "_id": {"$ne": doc["_id"]}})
app_update_check(p) ==
    /\ pc[p] = "upd_check"
    /\ LET r == req[p]
           l == Op(Cur(p))
       IN IF ~dbUp THEN Error(p, FALSE, r, l, 500)
          ELSE IF \E o \in DOMAIN devices :
                     /\ o # l._id
                     /\ devices[o].ip_address = r.payload["ip_address"]
          THEN Error(p, FALSE, r, l, 409)
          ELSE Goto(p, FALSE, r, l, "upd_write")
    /\ StoreSame /\ ConfSame /\ UNCHANGED <<dbUp, _client, verified>>

\* update_one({"_id": doc["_id"]}, {"$set": ...}); any exception is a 500.
app_update_write(p) ==
    /\ pc[p] = "upd_write"
    /\ LET r == req[p]
           l == Op(Cur(p))
       IN IF ~dbUp
          THEN Error(p, FALSE, r, l, 500) /\ UNCHANGED devices
          ELSE IF l._id \notin DOMAIN devices
          THEN Goto(p, FALSE, r, l, "upd_read") /\ UNCHANGED devices
          ELSE IF DuplicateKey(l._id, r.payload["ip_address"])
          THEN Error(p, FALSE, r, l, 500) /\ UNCHANGED devices
          ELSE /\ devices' = [devices EXCEPT ![l._id] = AppSetDoc(r.payload)]
               /\ Goto(p, FALSE, r, [l EXCEPT !.was = devices[l._id].status],
                       "upd_read")
    /\ ConfSame /\ UNCHANGED <<dbUp, _client, verified, nextId, uniqueIdx>>

\* doc = find_one({"_id": doc["_id"]}); return serialize_device(doc), 200
app_update_read(p) ==
    /\ pc[p] = "upd_read"
    /\ LET r == req[p]
           l == Op(Cur(p))
       IN IF ~dbUp THEN Error(p, FALSE, r, l, 500)
          ELSE Done(p, FALSE, r, l, 200, serialize_device(FindById(l._id)),
                    <<>>, None, "")
    /\ StoreSame /\ ConfSame /\ UNCHANGED <<dbUp, _client, verified>>

AppDeleteDevice(p, ids) ==
    /\ impl = "app" /\ Idle(p)
    /\ \E id \in ids :
         LET r == NewReq("delete", id, NoPayload)
             l == Fresh(p)
             doc == find_device_by_any_id(id)
         IN IF ~db_available THEN Error(p, TRUE, r, l, 503)
            ELSE IF ~dbUp THEN Error(p, TRUE, r, Op(l), 500)
            ELSE IF ~doc.found THEN Error(p, TRUE, r, Op(l), 404)
            ELSE Goto(p, TRUE, r, [Op(l) EXCEPT !._id = doc._id], "del_write")
    /\ StoreSame /\ ConfSame /\ UNCHANGED <<dbUp, _client, verified>>

app_delete_device(p) == AppDeleteDevice(p, Ids)

\* delete_one({"_id": doc["_id"]}); return ("", 204)
app_delete_write(p) ==
    /\ pc[p] = "del_write"
    /\ LET r == req[p]
           l == Op(Cur(p))
       IN IF ~dbUp
          THEN Error(p, FALSE, r, l, 500) /\ UNCHANGED devices
          ELSE /\ devices' = [i \in DOMAIN devices \ {l._id} |-> devices[i]]
               /\ Done(p, FALSE, r, l, 204, EmptyOut, <<>>, None, "")
    /\ ConfSame /\ UNCHANGED <<dbUp, _client, verified, nextId, uniqueIdx>>

\* device_status up to the probe: the address is the device's when the flag
\* says the store is there, the id itself when it is an IPv4 literal;
\* ping_host answers reachable or not (False for whatever it cannot run).
AppDeviceStatus(p, ids) ==
    /\ impl = "app" /\ Idle(p)
    /\ \E id \in ids, ok \in BOOLEAN :
         LET r == NewReq("status", id, NoPayload)
             l == Fresh(p)
             device == IF db_available THEN find_device_by_any_id(id) ELSE NoDoc
             ip == IF db_available THEN device.ip_address
                   ELSE IF is_ipv4(Str(id)) = "true" THEN Str(id) ELSE None
             reach == ok /\ ip.t = "str"
             status == IF Truthy(ip) /\ reach THEN Str(ONLINE) ELSE Str(OFFLINE)
             probes == IF Truthy(ip) THEN <<[host |-> ip, ok |-> reach]>> ELSE <<>>
             l1 == [l EXCEPT !.status = status, !.probes = probes]
         IN IF db_available /\ ~dbUp THEN Error(p, TRUE, r, Op(l), 500)
            ELSE IF db_available /\ ~device.found THEN Error(p, TRUE, r, Op(l), 404)
            ELSE IF db_available
            THEN Goto(p, TRUE, r, [Op(l1) EXCEPT !._id = device._id], "st_write")
            ELSE Done(p, TRUE, r, l1, 200, EmptyOut, <<>>, status, "")
    /\ StoreSame /\ ConfSame /\ UNCHANGED <<dbUp, _client, verified>>

app_device_status(p) == AppDeviceStatus(p, StatusIds)

\* The status write as it would be with upsert=True: a device that is no
\* longer there is stored again, with the status alone.
AppStatusWriteUpserts(p) ==
    /\ pc[p] = "st_write"
    /\ LET r == req[p]
           l == Op(Cur(p))
       IN /\ devices' = IF ~dbUp THEN devices
                        ELSE IF l._id \in DOMAIN devices
                        THEN [devices EXCEPT ![l._id].status = l.status]
                        ELSE (l._id :> [name |-> None, ip_address |-> None,
                                        type |-> None, location |-> None,
                                        status |-> l.status]) @@ devices
          /\ Done(p, FALSE, r, l, 200, EmptyOut, <<>>, l.status, "")
    /\ ConfSame /\ UNCHANGED <<dbUp, _client, verified, nextId, uniqueIdx>>

\* The status write as it would be if its exception were not swallowed:
\* "Failed" (500) when the store does not answer.
AppStatusWriteRaises(p) ==
    /\ pc[p] = "st_write"
    /\ LET r == req[p]
           l == Op(Cur(p))
       IN IF ~dbUp
          THEN Error(p, FALSE, r, l, 500) /\ UNCHANGED devices
          ELSE /\ devices' = IF l._id \in DOMAIN devices
                             THEN [devices EXCEPT ![l._id].status = l.status]
                             ELSE devices
               /\ Done(p, FALSE, r, l, 200, EmptyOut, <<>>, l.status, "")
    /\ ConfSame /\ UNCHANGED <<dbUp, _client, verified, nextId, uniqueIdx>>

\* update_one({"_id": device["_id"]}, {"$set": {"status": status, ...}}) with
\* every exception swallowed; return the status, 200.
app_status_write(p) ==
    /\ pc[p] = "st_write"
    /\ LET r == req[p]
           l == Op(Cur(p))
       IN /\ devices' = IF dbUp /\ l._id \in DOMAIN devices
                        THEN [devices EXCEPT ![l._id].status = l.status]
                        ELSE devices
          /\ Done(p, FALSE, r, l, 200, EmptyOut, <<>>, l.status, "")
    /\ ConfSame /\ UNCHANGED <<dbUp, _client, verified, nextId, uniqueIdx>>

(* ------------------------- db.py and routes/*.py ----------------------- *)
\* Code-point order of the characters that occur in names.
Alphabet == <<"\n", ".", "0", "1", "2", "3", "4", "5", "6", "7", "8", "9", ":",
              "a", "b", "c", "d", "e", "f", "h", "i", "k", "l", "n", "o", "p",
              "r", "s", "t", "u", "v", "w", "z">>
Code(c) == CHOOSE i \in 1..Len(Alphabet) : Alphabet[i] = c

\* a < b for texts, character by character
RECURSIVE TextLess(_, _)
TextLess(a, b) ==
    IF b = <<>> THEN FALSE
    ELSE IF a = <<>> THEN TRUE
    ELSE IF a[1] # b[1] THEN Code(a[1]) < Code(b[1])
    ELSE TextLess(Tail(a), Tail(b))

\* coll.find({}).sort("name", 1), each document through _to_out
RECURSIVE RoutesItems(_)
RoutesItems(ids) ==
    IF ids = {} THEN <<>>
    ELSE LET m == CHOOSE i \in ids : \A j \in ids \ {i} :
                      \/ TextLess(devices[i].name.v, devices[j].name.v)
                      \/ devices[i].name.v = devices[j].name.v /\ i < j
         IN <<to_out(FindById(m))>> \o RoutesItems(ids \ {m})

FieldOrder == <<"name", "ip_address", "type", "location", "status">>
FirstField(S) ==
    FieldOrder[CHOOSE i \in 1..5 : FieldOrder[i] \in S
                                   /\ \A j \in 1..(i - 1) : FieldOrder[j] \notin S]

\* The document routes create_device inserts.
RoutesNewDoc(data) ==
    [name |-> data["name"], ip_address |-> Str(IPvAnyText(data["ip_address"])),
     type |-> data["type"], location |-> data["location"],
     status |-> IF Truthy(DeviceCreateStatus(data)) THEN DeviceCreateStatus(data)
                ELSE Str(OFFLINE)]

\* The $set of routes update_device.
RoutesSetDoc(data) ==
    [name |-> data["name"], ip_address |-> Str(IPvAnyText(data["ip_address"])),
     type |-> data["type"], location |-> data["location"],
     status |-> data["status"]]

RouteOps == {"list", "create", "get", "update", "delete", "status"}

\* A request for one of ops reaches the routes draft: _require_db (in
\* status.py, is_db_available) comes first. _get_client builds the client
\* when there is none (it stays unset when the first ping fails), then the
\* ping decides.
\* The requests clients send are drawn from in: ids and sids are the path
\* identifiers (sids those of /status), creates and updates the bodies.
RoutesBeginWith(p, ops, in) ==
    /\ impl = "routes" /\ Idle(p)
    /\ \E op \in ops :
       \E id \in (IF op \in {"get", "update", "delete"} THEN in.ids
                  ELSE IF op = "status" THEN in.sids ELSE {<<>>}) :
       \E payload \in (IF op = "create" THEN in.creates
                       ELSE IF op = "update" THEN in.updates
                       ELSE {NoPayload}) :
         LET r == NewReq(op, id, payload)
             l == [Fresh(p) EXCEPT !.pinged = TRUE]
         IN /\ _client' = (IF _client = 0 /\ dbUp THEN p ELSE _client)
            /\ verified' = (IF _client = 0 /\ dbUp THEN verified \cup {p}
                            ELSE verified)
            /\ IF ~dbUp THEN Error(p, TRUE, r, l, 503)
               ELSE Goto(p, TRUE, r, l, op)
    /\ StoreSame /\ ConfSame /\ UNCHANGED dbUp

AllInputs == [ids |-> Ids, sids |-> StatusIds, creates |-> CreatePayloads,
              updates |-> UpdatePayloads]

RoutesBegin(p, ops) == RoutesBeginWith(p, ops, AllInputs)

routes_require_db(p) == RoutesBegin(p, RouteOps)

routes_list_devices(p) ==
    /\ pc[p] = "list"
    /\ LET r == req[p]
           l == Op(Cur(p))
       IN IF ~dbUp THEN Error(p, FALSE, r, l, 500)
          ELSE Done(p, FALSE, r, l, 200, EmptyOut, RoutesItems(DOMAIN devices),
                    None, "")
    /\ StoreSame /\ ConfSame /\ UNCHANGED <<dbUp, _client, verified>>

routes_create_device(p) ==
    /\ pc[p] = "create"
    /\ LET r == req[p]
           l == Cur(p)
           errs == DeviceCreateErrors(r.payload)
           doc == RoutesNewDoc(r.payload)
       IN IF errs # {}
          THEN Done(p, FALSE, r, l, 400, EmptyOut, <<>>, None, FirstField(errs))
               /\ StoreSame
          ELSE IF ~dbUp
          THEN Error(p, FALSE, r, Op(l), 500) /\ StoreSame
          ELSE IF DuplicateKey(InsertedId, doc.ip_address)
          THEN Error(p, FALSE, r, Op(l), 400) /\ StoreSame
          ELSE /\ devices' = (InsertedId :> doc) @@ devices
               /\ nextId' = nextId + 1
               /\ UNCHANGED uniqueIdx
               /\ Done(p, FALSE, r, Op(l), 201,
                       to_out([found |-> TRUE, _id |-> InsertedId, name |-> doc.name,
                               ip_address |-> doc.ip_address, type |-> doc.type,
                               location |-> doc.location, status |-> doc.status]),
                       <<>>, None, "")
    /\ ConfSame /\ UNCHANGED <<dbUp, _client, verified>>

\* try: find_one({"_id": ObjectId(id)}) except Exception: doc = None
routes_get_device(p) ==
    /\ pc[p] = "get"
    /\ LET r == req[p]
           l == Op(Cur(p))
           doc == IF dbUp THEN FindById(ObjectId(r.id)) ELSE NoDoc
       IN IF ~doc.found THEN Error(p, FALSE, r, l, 404)
          ELSE Done(p, FALSE, r, l, 200, to_out(doc), <<>>, None, "")
    /\ StoreSame /\ ConfSame /\ UNCHANGED <<dbUp, _client, verified>>

\* find_one_and_update({"_id": ObjectId(id)}, {"$set": ...}); only
\* DuplicateKeyError is caught, so InvalidId and a store error end as 500.
routes_update_device(p) ==
    /\ pc[p] = "update"
    /\ LET r == req[p]
           l == Cur(p)
           errs == DeviceUpdateErrors(r.payload)
           id == ObjectId(r.id)
       IN IF errs # {}
          THEN Done(p, FALSE, r, l, 400, EmptyOut, <<>>, None, FirstField(errs))
               /\ UNCHANGED devices
          ELSE IF id = 0
          THEN Error(p, FALSE, r, l, 500) /\ UNCHANGED devices
          ELSE IF ~dbUp
          THEN Error(p, FALSE, r, Op(l), 500) /\ UNCHANGED devices
          ELSE IF id \notin DOMAIN devices
          THEN Error(p, FALSE, r, Op(l), 404) /\ UNCHANGED devices
          ELSE IF DuplicateKey(id, RoutesSetDoc(r.payload).ip_address)
          THEN Error(p, FALSE, r, Op(l), 400) /\ UNCHANGED devices
          ELSE /\ devices' = [devices EXCEPT ![id] = RoutesSetDoc(r.payload)]
               /\ Goto(p, FALSE, r,
                       [Op(l) EXCEPT !._id = id, !.was = devices[id].status],
                       "update_read")
    /\ ConfSame /\ UNCHANGED <<dbUp, _client, verified, nextId, uniqueIdx>>

\* doc = coll.find_one({"_id": ObjectId(id)}); _to_out(doc) fails on None
routes_update_read(p) ==
    /\ pc[p] = "update_read"
    /\ LET r == req[p]
           l == Op(Cur(p))
           doc == FindById(l._id)
       IN IF ~dbUp \/ ~doc.found THEN Error(p, FALSE, r, l, 500)
          ELSE Done(p, FALSE, r, l, 200, to_out(doc), <<>>, None, "")
    /\ StoreSame /\ ConfSame /\ UNCHANGED <<dbUp, _client, verified>>

\* try: delete_one({"_id": ObjectId(id)}) except Exception: res = None
routes_delete_device(p) ==
    /\ pc[p] = "delete"
    /\ LET r == req[p]
           l == Op(Cur(p))
           id == ObjectId(r.id)
       IN IF ~dbUp \/ id \notin DOMAIN devices
          THEN Error(p, FALSE, r, l, 404) /\ UNCHANGED devices
          ELSE /\ devices' = [i \in DOMAIN devices \ {id} |-> devices[i]]
               /\ Done(p, FALSE, r, l, 204, EmptyOut, <<>>, None, "")
    /\ ConfSame /\ UNCHANGED <<dbUp, _client, verified, nextId, uniqueIdx>>

\* routes/status.py get_status: the stored status, no probe.
routes_get_status(p) ==
    /\ pc[p] = "status"
    /\ LET r == req[p]
           l == Op(Cur(p))
           doc == IF dbUp THEN FindById(ObjectId(r.id)) ELSE NoDoc
       IN IF ~doc.found THEN Error(p, FALSE, r, l, 404)
          ELSE Done(p, FALSE, r, l, 200, EmptyOut, <<>>, doc.status, "")
    /\ StoreSame /\ ConfSame /\ UNCHANGED <<dbUp, _client, verified>>

(* ----------------------------- environment ----------------------------- *)
\* The store stops answering / answers again.
StoreDown ==
    /\ dbUp /\ dbUp' = FALSE
    /\ UNCHANGED <<impl, db_available, uniqueIdx, devices, nextId,
                   nreq, pc, req, loc, resp, _client, verified, gpc, got, val>>

StoreUp ==
    /\ ~dbUp /\ dbUp' = TRUE
    /\ UNCHANGED <<impl, db_available, uniqueIdx, devices, nextId,
                   nreq, pc, req, loc, resp, _client, verified, gpc, got, val>>

(* --------------------------- the state machine ------------------------- *)
\* After construction. app.py: create_app keeps init_db's verdict for the
\* life of the process and swallows a failure of create_index. routes: the
\* client is built on first use; ensure_indexes returns without creating
\* the index when the store is down.
\* No thread is inside _get_client and none has called it.
NoCalls ==
    /\ gpc = [p \in Procs |-> "idle"]
    /\ got = [p \in Procs |-> 0]

\* No call of validate_device_payload.
NoVal == [payload |-> NoPayload, require_status |-> FALSE, called |-> FALSE,
          ok |-> FALSE, msg |-> "", field |-> ""]

Init ==
    /\ impl \in {"app", "routes"}
    /\ dbUp \in BOOLEAN
    /\ NoCalls
    /\ val = NoVal
    /\ db_available = (impl = "app" /\ dbUp)
    /\ _client = (IF impl = "routes" /\ dbUp THEN 1 ELSE 0)
    /\ verified = (IF impl = "routes" /\ dbUp THEN {1} ELSE {})
    /\ uniqueIdx \in (IF ~dbUp THEN {FALSE}
                      ELSE IF impl = "app" THEN BOOLEAN ELSE {TRUE})
    /\ devices = << >>
    /\ nextId = 1
    /\ nreq = 0
    /\ pc = [p \in Procs |-> "idle"]
    /\ req = [p \in Procs |-> NoReq]
    /\ loc = [p \in Procs |-> IdleLoc]
    /\ resp = NoResp

Next ==
    \/ \E p \in Procs : health(p)
    \/ \E p \in Procs : app_list_devices(p)
    \/ \E p \in Procs : app_create_device(p)
    \/ \E p \in Procs : app_create_find(p)
    \/ \E p \in Procs : app_get_device(p)
    \/ \E p \in Procs : app_update_device(p)
    \/ \E p \in Procs : app_update_check(p)
    \/ \E p \in Procs : app_update_write(p)
    \/ \E p \in Procs : app_update_read(p)
    \/ \E p \in Procs : app_delete_device(p)
    \/ \E p \in Procs : app_delete_write(p)
    \/ \E p \in Procs : app_device_status(p)
    \/ \E p \in Procs : app_status_write(p)
    \/ \E p \in Procs : routes_require_db(p)
    \/ \E p \in Procs : routes_list_devices(p)
    \/ \E p \in Procs : routes_create_device(p)
    \/ \E p \in Procs : routes_get_device(p)
    \/ \E p \in Procs : routes_update_device(p)
    \/ \E p \in Procs : routes_update_read(p)
    \/ \E p \in Procs : routes_delete_device(p)
    \/ \E p \in Procs : routes_get_status(p)
    \/ StoreDown
    \/ StoreUp

Spec == Init /\ [][Next]_vars

\* The requests of clients that create with or without a status, validly or
\* not, and get by any id.
CreateGetInputs == [ids |-> Ids, sids |-> {},
                    creates |-> {PA, PAon, PB, PNoName}, updates |-> {}]

\* Clients that only create devices and read them back.
NextCreateGet ==
    \/ \E p \in Procs : AppCreateDevice(p, CreateGetInputs.creates)
    \/ \E p \in Procs : app_create_find(p)
    \/ \E p \in Procs : AppGetDevice(p, CreateGetInputs.ids)
    \/ \E p \in Procs : RoutesBeginWith(p, {"create", "get"}, CreateGetInputs)
    \/ \E p \in Procs : routes_create_device(p)
    \/ \E p \in Procs : routes_get_device(p)
    \/ StoreDown
    \/ StoreUp

SpecCreateGet == Init /\ [][NextCreateGet]_vars

(* ------------------------------ properties ----------------------------- *)
\* A request was answered in this step.
Answered == resp'.n # resp.n

\* A payload the data model of the device admits: non-empty text for name
\* and location, a dotted quad of octets 0..255, an enumerated type, and a
\* status that is enumerated (or absent, unless it is required).
WellFormed(payload, require_status) ==
    /\ \A k \in {"name", "ip_address", "type", "location"} :
          k \in DOMAIN payload /\ payload[k].t = "str" /\ payload[k].v # <<>>
    /\ DottedQuadRe(payload["ip_address"].v)
    /\ payload["type"].v \in DeviceType
    /\ IF "status" \in DOMAIN payload
       THEN payload["status"].t = "str" /\ payload["status"].v \in DeviceStatus
       ELSE ~require_status

\* The first required field that is missing or empty, else "ip_address" when
\* the address is no IPv4 dotted quad, else "".
Offending(payload, require_status) ==
    LET need == Required(require_status)
        gone == {i \in 1..Len(need) :
                    \/ need[i] \notin DOMAIN payload
                    \/ payload[need[i]] \in {None, Str(<<>>)}}
    IN IF gone # {} THEN need[CHOOSE i \in gone : \A j \in gone : i <= j]
       ELSE IF ~(payload["ip_address"].t = "str"
                 /\ DottedQuadRe(payload["ip_address"].v))
       THEN "ip_address"
       ELSE ""

\* The records other than id that hold the address ip.
Holders(ip, id) == {o \in DOMAIN devices : o # id /\ devices[o].ip_address = ip}

\* C1: in every reachable state no two stored device records have the same
\* ip_address.
C1_UniqueIp ==
    \A i, j \in DOMAIN devices :
        i # j => devices[i].ip_address # devices[j].ip_address

\* C2: a create with a valid payload whose ip_address is held by an existing
\* record, handled with the store up, the unique index in place and no other
\* request in flight, is answered 409 (so of the creates for one address
\* exactly one gets 201).
C2_CreateConflict ==
    [][(/\ Answered
        /\ resp'.op = "create" /\ resp'.solo /\ resp'.up /\ uniqueIdx
        /\ WellFormed(resp'.payload, FALSE)
        /\ Holders(resp'.payload["ip_address"],
                   IF resp'.code = 201 THEN ObjectId(resp'.data.id) ELSE 0) # {})
       => resp'.code = 409]_vars

\* C3: with no other request in flight, the store up and the unique index in
\* place, an update of an existing device A with a valid payload is answered
\* 409 and writes nothing when another device holds the payload's ip_address;
\* when the address is A's own it is answered 200 and A then holds the
\* payload's fields.
C3_UpdateConflictOrOwn ==
    [][(/\ Answered
        /\ resp'.op = "update" /\ resp'.solo /\ resp'.up /\ uniqueIdx
        /\ WellFormed(resp'.payload, TRUE)
        /\ ObjectId(resp'.id) \in DOMAIN devices)
       => LET a == ObjectId(resp'.id)
              ip == resp'.payload["ip_address"]
          IN /\ Holders(ip, a) # {}
                  => resp'.code = 409 /\ devices' = devices
             /\ (Holders(ip, a) = {} /\ devices[a].ip_address = ip)
                  => /\ resp'.code = 200
                     /\ devices'[a] = [k \in Fields |-> resp'.payload[k]]]_vars

\* C4: the status of every stored device record is "online" or "offline".
C4_StatusEnumerated ==
    \A i \in DOMAIN devices : devices[i].status \in {Str(ONLINE), Str(OFFLINE)}

\* C5: a list, create, get, update or delete handled while the store is
\* down is answered 503.
C5_Unavailable503 ==
    (resp.op \in {"list", "create", "get", "update", "delete"} /\ resp.down)
        => resp.code = 503

\* C6: checkStatus is answered 200 with a status of "online" or "offline", or
\* 404 when the store was up throughout and the id resolved to no record;
\* never 503 and never a server error.
C6_StatusNever503 ==
    resp.op = "status" =>
        \/ resp.code = 200 /\ resp.status \in {Str(ONLINE), Str(OFFLINE)}
        \/ resp.code = 404 /\ resp.up

\* C7: a checkStatus handled with the store up on a device that exists is
\* answered 200 after exactly one probe, with "online" exactly when the probe
\* reported reachable, and the stored status then equals the answer.
C7_StatusProbed ==
    [][(/\ Answered
        /\ resp'.op = "status" /\ resp'.up
        /\ ObjectId(resp'.id) \in DOMAIN devices
        /\ ObjectId(resp'.id) \in DOMAIN devices')
       => /\ resp'.code = 200
          /\ Len(resp'.probes) = 1
          /\ (resp'.status = Str(ONLINE)) = resp'.probes[1].ok
          /\ (resp'.status = Str(OFFLINE)) = ~resp'.probes[1].ok
          /\ devices'[ObjectId(resp'.id)].status = resp'.status]_vars

\* C8: a checkStatus handled with the store down reads and writes nothing in
\* the store; for an id that is an IPv4 literal it probes that literal once
\* and answers the verdict, for any other id it does not probe and answers
\* "offline".
C8_StatusDegraded ==
    (resp.op = "status" /\ resp.down) =>
        /\ resp.ops = 0
        /\ resp.code = 200
        /\ IF is_ipv4_str(resp.id)
           THEN /\ Len(resp.probes) = 1
                /\ resp.probes[1].host = Str(resp.id)
                /\ resp.status = (IF resp.probes[1].ok THEN Str(ONLINE)
                                  ELSE Str(OFFLINE))
           ELSE resp.probes = <<>> /\ resp.status = Str(OFFLINE)

\* C9: a create or update (store up) whose payload lacks a required field, has
\* it empty, or has an ip_address that is no IPv4 address is answered 400
\* naming that field, before any read or write of the store.
C9_InvalidRejected ==
    (/\ resp.op \in {"create", "update"} /\ resp.up
     /\ Offending(resp.payload, resp.op = "update") # "")
       => /\ resp.code = 400
          /\ resp.field = Offending(resp.payload, resp.op = "update")
          /\ resp.ops = 0

\* C9 (frame): the step that answers such a request leaves the collection as
\* it was.
C9_InvalidWritesNothing ==
    [][(/\ Answered
        /\ resp'.op \in {"create", "update"}
        /\ Offending(resp'.payload, resp'.op = "update") # "")
       => devices' = devices]_vars

\* C10: a get of the id a successful create has just returned (no other
\* request in between, store up) is answered 200 with the name, ip_address,
\* type and location submitted and the status submitted, "offline" when none
\* was.
C10_CreateGetRoundTrip ==
    [][(/\ Answered
        /\ resp'.op = "get" /\ resp'.solo /\ resp'.up
        /\ resp.op = "create" /\ resp.code = 201 /\ resp.solo
        /\ resp'.n = resp.n + 1
        /\ resp'.id = resp.data.id
        /\ WellFormed(resp.payload, FALSE))
       => /\ resp'.code = 200
          /\ \A k \in {"name", "ip_address", "type", "location"} :
                resp'.data[k] = resp.payload[k]
          /\ resp'.data.status = (IF "status" \in DOMAIN resp.payload
                                  THEN resp.payload["status"]
                                  ELSE Str(OFFLINE))]_vars

\* C10 (witness): the second request was a get, alone, answered 200 with a
\* device that is online: the first request created it with that status.
C10_Witness ==
    /\ resp.op = "get" /\ resp.code = 200 /\ resp.n = 2 /\ resp.solo /\ resp.up
    /\ resp.data.status = Str(ONLINE)
    /\ resp.data.name = Str(R1)

(* ----------------------- a stored device, store up --------------------- *)
\* A process that has served one create (of PA) and whose store stays up.
InitStored ==
    /\ impl \in {"app", "routes"}
    /\ dbUp = TRUE
    /\ NoCalls
    /\ val = NoVal
    /\ db_available = (impl = "app")
    /\ _client = (IF impl = "routes" THEN 1 ELSE 0)
    /\ verified = (IF impl = "routes" THEN {1} ELSE {})
    /\ uniqueIdx = TRUE
    /\ devices = (1 :> (IF impl = "app" THEN AppNewDoc(PA) ELSE RoutesNewDoc(PA)))
    /\ nextId = 2
    /\ nreq = 0
    /\ pc = [p \in Procs |-> "idle"]
    /\ req = [p \in Procs |-> NoReq]
    /\ loc = [p \in Procs |-> IdleLoc]
    /\ resp = NoResp

\* The requests of clients that know two ids and send two bodies: PB, and
\* PAon with its required status or (PA) without.
FewInputs == [ids |-> {OidStr(1), OidStr(2)}, sids |-> {OidStr(1), OidStr(2)},
              creates |-> {PB}, updates |-> {PA, PAon}]

\* Clients that create, read, update, delete and check devices.
NextLifecycle ==
    \/ \E p \in Procs : AppCreateDevice(p, FewInputs.creates)
    \/ \E p \in Procs : app_create_find(p)
    \/ \E p \in Procs : AppGetDevice(p, FewInputs.ids)
    \/ \E p \in Procs : AppUpdateDevice(p, FewInputs.ids, FewInputs.updates)
    \/ \E p \in Procs : app_update_check(p)
    \/ \E p \in Procs : app_update_write(p)
    \/ \E p \in Procs : app_update_read(p)
    \/ \E p \in Procs : AppDeleteDevice(p, FewInputs.ids)
    \/ \E p \in Procs : app_delete_write(p)
    \/ \E p \in Procs : AppDeviceStatus(p, FewInputs.sids)
    \/ \E p \in Procs : app_status_write(p)
    \/ \E p \in Procs : RoutesBeginWith(p, RouteOps \ {"list"}, FewInputs)
    \/ \E p \in Procs : routes_create_device(p)
    \/ \E p \in Procs : routes_get_device(p)
    \/ \E p \in Procs : routes_update_device(p)
    \/ \E p \in Procs : routes_update_read(p)
    \/ \E p \in Procs : routes_delete_device(p)
    \/ \E p \in Procs : routes_get_status(p)

SpecLifecycle == InitStored /\ [][NextLifecycle]_vars

\* C11 as stated: a get, update, delete or checkStatus that arrives after
\* the delete of its id was answered 204 is answered 404 when the store is
\* up, whatever was created in between.
C11_GoneNotFoundAnyPayload ==
    [][(/\ Answered
        /\ resp'.op \in {"get", "update", "delete", "status"}
        /\ resp'.gone /\ resp'.up)
       => resp'.code = 404]_vars

\* C11 (amended): a get, delete or checkStatus, or an update with a valid
\* payload, that arrives after the delete of its id was answered 204 is
\* answered 404 when the store is up, whatever was created in between; no
\* document ever takes the id of a deleted one.
C11_GoneNotFound ==
    [][/\ (/\ Answered
           /\ resp'.op \in {"get", "update", "delete", "status"}
           /\ resp'.gone /\ resp'.up
           /\ resp'.op = "update" => WellFormed(resp'.payload, TRUE))
          => resp'.code = 404
       /\ \A id \in 1..(nextId - 1) : Deleted(id) => Deleted(id)']_vars

\* C11 (witness): the third request named the id of the device that the first
\* deleted, after the second had created another device, and was answered 404.
C11_Witness ==
    /\ resp.n = 3 /\ resp.op \in {"get", "update", "delete", "status"}
    /\ resp.gone /\ resp.up /\ resp.code = 404
    /\ resp.id = OidStr(1) /\ DOMAIN devices = {2}

\* C12: with the store available, a get, update (valid payload), delete or
\* checkStatus whose identifier is malformed (no ObjectId) is answered 404,
\* as one whose well-formed identifier matches no record is; never 500.
C12_MalformedIdNotFound ==
    (/\ resp.op \in {"get", "update", "delete", "status"}
     /\ resp.up /\ (impl = "app" => db_available)
     /\ resp.op = "update" => WellFormed(resp.payload, TRUE)
     /\ ObjectId(resp.id) = 0)
       => resp.code = 404

\* C13: health is answered 200 without a read, write or ping of the store,
\* and a health request made while the store is down reports
\* db_available = false.
C13_HealthReportsDown ==
    resp.op = "health"
       => /\ resp.code = 200
          /\ resp.ops = 0 /\ ~resp.pinged
          /\ resp.down => resp.status = Str(<<"f">>)

\* C14: a list answered while the store is available is a 200 whose items
\* are the stored devices, each exactly once, in ascending order of name
\* (no items when nothing is stored).
C14_ListAllSorted ==
    [][(/\ Answered
        /\ resp'.op = "list" /\ resp'.up /\ (impl = "app" => db_available))
       => /\ resp'.code = 200
          /\ Len(resp'.items) = Cardinality(DOMAIN devices)
          /\ \A d \in DOMAIN devices :
                \E i \in 1..Len(resp'.items) :
                   /\ resp'.items[i].id = OidStr(d)
                   /\ resp'.items[i].name = devices[d].name
                   /\ resp'.items[i].ip_address = devices[d].ip_address
          /\ \A i, j \in 1..Len(resp'.items) :
                i < j => ~TextLess(resp'.items[j].name.v, resp'.items[i].name.v)]_vars

(* ---------------------- validate_device_payload alone ------------------ *)
\* The values a client may send for each key; NoValue: the key is not sent.
NoValue == [t |-> "absent", v |-> <<>>]
IP_NL == IP_A \o <<"\n">>
IP_256 == <<"1", "0", ".", "0", ".", "0", ".", "2", "5", "6">>
HUB == <<"h", "u", "b">>
UP == <<"u", "p">>
NameValues == {NoValue, None, Str(<<>>), Str(R1)}
AddressValues == {NoValue, Str(<<>>), Str(IP_A), Str(IP_NL), Str(IP_256),
                  Str(IP_V6), Num(<<"5">>)}
TypeValues == {NoValue, Str(ROUTER), Str(SERVER), Str(HUB), Num(<<"5">>)}
LocationValues == {NoValue, Str(<<>>), Str(RACK1)}
StatusValues == {NoValue, None, Str(ONLINE), Str(OFFLINE), Str(UP)}

\* The JSON object with the keys that are sent.
Payload(f) == [k \in {j \in Fields : f[j] # NoValue} |-> f[k]]

\* A handler is about to call validate_device_payload.
InitValidate ==
    /\ impl = "app" /\ dbUp = TRUE /\ db_available = TRUE /\ uniqueIdx = TRUE
    /\ devices = << >> /\ nextId = 1 /\ nreq = 0
    /\ pc = [p \in Procs |-> "idle"]
    /\ req = [p \in Procs |-> NoReq]
    /\ loc = [p \in Procs |-> IdleLoc]
    /\ resp = NoResp
    /\ _client = 0 /\ verified = {} /\ NoCalls
    /\ \E n \in NameValues, a \in AddressValues, t \in TypeValues,
          l \in LocationValues, s \in StatusValues, rs \in BOOLEAN :
         val = [NoVal EXCEPT
                  !.payload = Payload([name |-> n, ip_address |-> a, type |-> t,
                                       location |-> l, status |-> s]),
                  !.require_status = rs]

\* ok, msg = validate_device_payload(payload, require_status); a TypeError
\* raised inside is kept as the message.
Validate ==
    /\ ~val.called
    /\ LET v == validate_device_payload(val.payload, val.require_status)
       IN val' = [val EXCEPT !.called = TRUE, !.ok = v.ok, !.msg = v.msg,
                             !.field = v.field]
    /\ UNCHANGED <<impl, dbUp, db_available, uniqueIdx, devices, nextId, nreq,
                   pc, req, loc, resp, _client, verified, gpc, got>>

SpecValidate == InitValidate /\ [][Validate]_vars

\* The first rule of the validator's contract that the payload violates, as
\* [msg, field]: presence (non-empty) of the required fields in the order
\* name, ip_address, type, location, status; then the IPv4 syntax of
\* ip_address; then the type; then (when required) the status.
FirstViolation(payload, require_status) ==
    LET need == Required(require_status)
        lack == {i \in 1..Len(need) :
                    \/ need[i] \notin DOMAIN payload
                    \/ payload[need[i]] \in {None, Str(<<>>)}}
    IN IF lack # {}
       THEN [msg |-> "required",
             field |-> need[CHOOSE i \in lack : \A j \in lack : i <= j]]
       ELSE IF ~(payload["ip_address"].t = "str"
                 /\ DottedQuadRe(payload["ip_address"].v))
       THEN [msg |-> "must be valid IPv4", field |-> "ip_address"]
       ELSE IF ~(payload["type"].t = "str" /\ payload["type"].v \in DeviceType)
       THEN [msg |-> "must be one of", field |-> "type"]
       ELSE IF require_status
               /\ ~(payload["status"].t = "str"
                    /\ payload["status"].v \in DeviceStatus)
       THEN [msg |-> "must be one of", field |-> "status"]
       ELSE [msg |-> "", field |-> ""]

\* C15: validate_device_payload returns valid exactly when the payload
\* violates no rule, and otherwise the single failure of the first rule
\* violated.
C15_ValidatorContract ==
    val.called
       => LET first == FirstViolation(val.payload, val.require_status)
          IN /\ val.ok = (first.msg = "")
             /\ val.msg = first.msg
             /\ val.field = first.field

\* The device and the address of the write that thread p is about to make
\* for an update (app.py: update_one; routes: find_one_and_update).
UpdateTarget(p) ==
    IF impl = "app" THEN loc[p]._id ELSE ObjectId(req[p].id)

\* Thread p attempts the write of a valid update now, the store is up, the
\* device is there, and another record holds the new address.
WritesHeldAddress(p) ==
    /\ pc[p] \in {"upd_write", "update"} /\ pc'[p] # pc[p]
    /\ dbUp /\ WellFormed(req[p].payload, TRUE)
    /\ UpdateTarget(p) \in DOMAIN devices
    /\ Holders(req[p].payload["ip_address"], UpdateTarget(p)) # {}

\* C16: an update whose new address another record holds when the write is
\* attempted is answered 409 in that step, also when that record took the
\* address after the update had checked for it; never 500.
C16_WriteConflict409 ==
    [][\A p \in Procs :
          WritesHeldAddress(p) => (Answered /\ resp'.code = 409)]_vars

(* --------------------- status checks, store failing -------------------- *)
\* Clients that create, delete and check devices while the store comes and
\* goes.
NextStatus ==
    \/ \E p \in Procs : AppCreateDevice(p, FewInputs.creates)
    \/ \E p \in Procs : app_create_find(p)
    \/ \E p \in Procs : AppDeleteDevice(p, FewInputs.ids)
    \/ \E p \in Procs : app_delete_write(p)
    \/ \E p \in Procs : AppDeviceStatus(p, FewInputs.sids)
    \/ \E p \in Procs : app_status_write(p)
    \/ \E p \in Procs : RoutesBeginWith(p, {"create", "delete", "status"}, FewInputs)
    \/ \E p \in Procs : routes_create_device(p)
    \/ \E p \in Procs : routes_delete_device(p)
    \/ \E p \in Procs : routes_get_status(p)
    \/ StoreDown
    \/ StoreUp

SpecStatus == InitStored /\ [][NextStatus]_vars

\* online when the (one) probe of the request succeeded, else offline
ProbeVerdict(probes) ==
    IF Len(probes) > 0 /\ probes[1].ok THEN Str(ONLINE) ELSE Str(OFFLINE)

\* C17: when the status write of a checkStatus fails (the device had
\* resolved, the store does not answer the write), the request is answered in
\* that step as if it had not: 200 with the status the probe gave, and
\* nothing is stored.
C17_WriteFailureSwallowed ==
    [][\A p \in Procs :
          (pc[p] = "st_write" /\ pc'[p] # pc[p] /\ ~dbUp)
             => /\ Answered /\ resp'.n = req[p].n
                /\ resp'.code = 200
                /\ resp'.status = ProbeVerdict(loc[p].probes)
                /\ devices' = devices]_vars

\* C17 (witness): a checkStatus answered 200 "online" after two store
\* operations of which the second met a store that was down; the device is
\* still stored as offline.
C17_Witness ==
    /\ resp.op = "status" /\ resp.code = 200 /\ resp.ops = 2
    /\ ~resp.up /\ ~dbUp
    /\ resp.status = Str(ONLINE)
    /\ ObjectId(resp.id) \in DOMAIN devices
    /\ devices[ObjectId(resp.id)].status = Str(OFFLINE)

\* Thread p takes this step and it is the write of d's status by an update
\* of d (to the status of its payload) or by a checkStatus of d (to the
\* verdict of its probe).
WritesStatus(p, d) ==
    /\ pc'[p] # pc[p]
    /\ \/ /\ pc[p] \in {"upd_write", "update"}
          /\ UpdateTarget(p) = d
          /\ devices'[d].status = req[p].payload["status"]
       \/ /\ pc[p] = "st_write"
          /\ loc[p]._id = d
          /\ devices'[d].status = ProbeVerdict(loc[p].probes)

\* This step leaves the stored status of every device that exists before
\* and after it as it was, unless it is such a write.
StatusFrame ==
    \A d \in DOMAIN devices \cap DOMAIN devices' :
       devices'[d].status # devices[d].status
          => \E p \in Procs : WritesStatus(p, d)

\* A device that this step creates from a payload without status is stored
\* as offline.
CreatedOffline ==
    \A d \in DOMAIN devices' \ DOMAIN devices :
       \E p \in Procs :
          /\ pc'[p] # pc[p]
          /\ LET payload == IF impl = "app" THEN req'[p].payload
                            ELSE req[p].payload
             IN "status" \notin DOMAIN payload
                   => devices'[d].status = Str(OFFLINE)

\* An update that this step answers and that has changed the stored status
\* of its device is answered 200.
ChangedBySuccess ==
    (/\ Answered /\ resp'.op = "update"
     /\ resp'.was # None /\ resp'.was # resp'.payload["status"])
       => resp'.code = 200

\* C18: the stored status of an existing device changes only in the write
\* step of a successful update of that device (to the status supplied) or of
\* a checkStatus of that device (to the probe's verdict), so no failed
\* request and no request on another device changes it; a device created
\* without status starts as offline.
C18_StatusChangesOnlyBy ==
    [][StatusFrame /\ CreatedOffline /\ ChangedBySuccess]_vars

\* Thread p takes this step inside a checkStatus: the step that receives the
\* request (and, in app.py, resolves the id and probes), the status write,
\* or the routes draft's lookup.
StatusStep(p) ==
    \/ pc[p] \in {"st_write", "status"} /\ pc'[p] # pc[p]
    \/ pc[p] = "idle" /\ pc'[p] # "idle" /\ req'[p].op = "status"
    \/ Idle(p) /\ pc' = pc /\ Answered /\ resp'.op = "status"

\* C19: a step of a checkStatus changes at most the stored status of the
\* record its id resolved to: the same records exist after it as before
\* (none created, none re-created when the resolved one was deleted
\* meanwhile), with the same name, ip_address, type and location, and every
\* other record is untouched.
C19_StatusWritesStatusOnly ==
    [][\A p \in Procs :
          StatusStep(p)
             => /\ DOMAIN devices' = DOMAIN devices
                /\ nextId' = nextId
                /\ \A d \in DOMAIN devices :
                      /\ devices'[d].name = devices[d].name
                      /\ devices'[d].ip_address = devices[d].ip_address
                      /\ devices'[d].type = devices[d].type
                      /\ devices'[d].location = devices[d].location
                      /\ (pc[p] # "st_write" \/ d # loc[p]._id)
                            => devices'[d] = devices[d]]_vars

\* C19 (witness): a checkStatus, the store up throughout, resolved its
\* device, wrote, and was answered 200, and the device, deleted while the
\* probe ran, is not stored.
C19_Witness ==
    /\ resp.op = "status" /\ resp.code = 200 /\ resp.ops = 2 /\ resp.up
    /\ Deleted(ObjectId(resp.id))

(* ------------------------- db.py: _get_client -------------------------- *)
\* The variables _get_client does not touch.
ServerSame ==
    UNCHANGED <<impl, dbUp, db_available, uniqueIdx, devices, nextId, pc, req,
                loc, resp, val>>

\* A thread calls _get_client (from get_db or is_db_available) and tests
\* `_client is not None` (line 9).
get_client_test(p) ==
    /\ gpc[p] = "idle" /\ nreq < MaxReqs
    /\ nreq' = nreq + 1
    /\ gpc' = [gpc EXCEPT ![p] = IF _client # 0 THEN "return" ELSE "construct"]
    /\ UNCHANGED <<_client, verified, got>>
    /\ ServerSame

\* _client = MongoClient(...) (line 13): the module's client is the new
\* object from here on, its ping still to come.
get_client_construct(p) ==
    /\ gpc[p] = "construct"
    /\ _client' = p
    /\ verified' = verified \ {p}
    /\ gpc' = [gpc EXCEPT ![p] = "ping"]
    /\ UNCHANGED <<got, nreq>>
    /\ ServerSame

\* _client.admin.command("ping") (line 15), on whatever _client is by now:
\* an AttributeError on None, a failure when the store is down.
get_client_ping(p) ==
    /\ gpc[p] = "ping"
    /\ IF _client # 0 /\ dbUp
       THEN /\ verified' = verified \cup {_client}
            /\ gpc' = [gpc EXCEPT ![p] = "return"]
       ELSE /\ gpc' = [gpc EXCEPT ![p] = "except"]
            /\ UNCHANGED verified
    /\ UNCHANGED <<_client, got, nreq>>
    /\ ServerSame

\* return _client (lines 10 and 16): the caller gets what _client is now.
get_client_return(p) ==
    /\ gpc[p] = "return"
    /\ got' = [got EXCEPT ![p] = _client]
    /\ gpc' = [gpc EXCEPT ![p] = "idle"]
    /\ UNCHANGED <<_client, verified, nreq>>
    /\ ServerSame

\* except Exception: _client = None; return None (lines 17-20)
get_client_except(p) ==
    /\ gpc[p] = "except"
    /\ _client' = 0
    /\ got' = [got EXCEPT ![p] = 0]
    /\ gpc' = [gpc EXCEPT ![p] = "idle"]
    /\ UNCHANGED <<verified, nreq>>
    /\ ServerSame

\* The routes draft before any call of _get_client.
InitClient ==
    /\ impl = "routes" /\ dbUp \in BOOLEAN /\ db_available = FALSE
    /\ uniqueIdx = FALSE /\ devices = << >> /\ nextId = 1 /\ nreq = 0
    /\ pc = [p \in Procs |-> "idle"]
    /\ req = [p \in Procs |-> NoReq]
    /\ loc = [p \in Procs |-> IdleLoc]
    /\ resp = NoResp
    /\ _client = 0 /\ verified = {} /\ NoCalls
    /\ val = NoVal

\* Threads that call get_db / is_db_available while the store comes and goes.
NextClient ==
    \/ \E p \in Procs : get_client_test(p)
    \/ \E p \in Procs : get_client_construct(p)
    \/ \E p \in Procs : get_client_ping(p)
    \/ \E p \in Procs : get_client_return(p)
    \/ \E p \in Procs : get_client_except(p)
    \/ StoreDown
    \/ StoreUp

SpecClient == InitClient /\ [][NextClient]_vars

\* C20: no MongoClient is built once the ping of one has succeeded, and a
\* caller of _get_client is never handed a client whose ping has not
\* succeeded.
C20_OneVerifiedClient ==
    [][\A p \in Procs :
          /\ (gpc[p] = "construct" /\ gpc'[p] = "ping") => verified = {}
          /\ (gpc[p] = "return" /\ gpc'[p] = "idle" /\ got'[p] # 0)
                => got'[p] \in verified]_vars

\* C21: an update is answered 200 only when its write met the record (it
\* had not been deleted since the lookup), and the Device returned then has
\* the id asked for (and, no other request interleaving, the fields of the
\* payload); an update whose write finds the record deleted is answered 404
\* in that step.
C21_UpdateNeedsRecord ==
    [][/\ (Answered /\ resp'.op = "update" /\ resp'.code = 200)
          => /\ resp'.was # None
             /\ ~resp'.data.empty
             /\ resp'.data.id = resp'.id
             /\ resp'.solo
                   => \A k \in Fields : resp'.data[k] = resp'.payload[k]
       /\ \A p \in Procs :
             (/\ pc[p] \in {"upd_write", "update"} /\ pc'[p] # pc[p]
              /\ dbUp /\ WellFormed(req[p].payload, TRUE)
              /\ Deleted(UpdateTarget(p)))
                => (Answered /\ resp'.code = 404)]_vars

====
